---- MODULE Spec2Model ----
(***************************************************************************)
(* compute_features (bycycle/features/features.py): the orchestrator that  *)
(* extracts shape features, resolves the dual-threshold configuration,     *)
(* computes burst features, concatenates the two tables and dispatches to  *)
(* a burst classifier.  One call is executed statement by statement (pc is *)
(* the line the call is at); the caller may call again, with a new         *)
(* burst_detection_kwargs record or with the very object it passed before. *)
(***************************************************************************)
EXTENDS Integers, Sequences, FiniteSets, TLC

VARIABLES pc, args, callerKwargs, entryKwargs, sameObj,
          df_shape_features, df_samples, dual_threshold_kwargs,
          df_burst_features, df_features, burst_detection_kwargs,
          trace, outcome, prev

vars == <<pc, args, callerKwargs, entryKwargs, sameObj,
          df_shape_features, df_samples, dual_threshold_kwargs,
          df_burst_features, df_features, burst_detection_kwargs,
          trace, outcome, prev>>

(* ------------------------------ bounds --------------------------------- *)

\* Largest number of cycles the extractor finds in a signal.
MaxCycles == 2

(* ------------------------- Python values ------------------------------- *)

\* A dict is a function from its keys; {} is the function with no key.
EmptyDict == <<>>

\* A reference that is either None or a dict.
PyNone == [isDict |-> FALSE, d |-> EmptyDict]

PyDict(d) == [isDict |-> TRUE, d |-> d]

\* dict.pop(k, default): the dict left behind.
Pop(d, k) == [x \in DOMAIN d \ {k} |-> d[x]]

\* dict.pop(k, default) / d[k] if k in d else default: the value read.
GetOr(d, k, dflt) == IF k \in DOMAIN d THEN d[k] ELSE dflt

\* The defaults of the dual-threshold configuration.
DefaultAmpThreshes == <<1, 2>>

DefaultFilterKwargs == "None"

DefaultNCyclesMin == 3

\* The keys the amplitude branch reads from burst_detection_kwargs.
DualThreshKeys == {"amp_threshes", "filter_kwargs", "n_cycles_min"}

(* --------------------------- caller inputs ----------------------------- *)

\* The two burst detection methods, and a string that is neither.
Methods == {"cycles", "amplitude", "amp"}

\* A signal is abstracted to the number of cycles the extractor finds in
\* it; 0 stands for a signal too short for the extractor's filter.
Signals == 0..MaxCycles

TooShort(sig) == sig = 0

\* Whether the collaborators' column sets are disjoint or share a name.
Schemas == {"disjoint", "colliding"}

\* The values a caller puts under each key (<<>>, "" and 0 stand for
\* "key not given").
AmpThreshChoices == {<<>>, <<2, 3>>, <<2, 1>>}

FilterKwargsChoices == {"", "order"}

NCyclesMinChoices == {0, 4}

FractionChoices == {0, 1}

MkDict(a, f, n, b) ==
    (IF a = <<>> THEN EmptyDict ELSE "amp_threshes" :> a) @@
    (IF f = "" THEN EmptyDict ELSE "filter_kwargs" :> f) @@
    (IF n = 0 THEN EmptyDict ELSE "n_cycles_min" :> n) @@
    (IF b = 0 THEN EmptyDict ELSE "burst_fraction_threshold" :> b)

CallerDicts ==
    {MkDict(a, f, n, b) : a \in AmpThreshChoices, f \in FilterKwargsChoices,
                          n \in NCyclesMinChoices, b \in FractionChoices}

\* burst_detection_kwargs as the caller may give it: omitted (None) or a dict.
CallerKwargs == {PyNone} \cup {PyDict(d) : d \in CallerDicts}

CallArgs == [method : Methods, return_samples : BOOLEAN,
             sig : Signals, schema : Schemas]

(* ------------------------------ tables --------------------------------- *)

\* A DataFrame: its row index, its column names in order, and the
\* computations (collaborator and configuration) its values come from.
Table(index, cols, hist) == [index |-> index, cols |-> cols, hist |-> hist]

NoTable == Table(<<>>, <<>>, <<>>)

RangeIndex(n) == [i \in 1..n |-> i - 1]

Event(op, cfg) == [op |-> op, cfg |-> cfg]

ShapeCols == <<"period", "time_decay", "time_rise", "time_peak", "time_trough",
               "volt_decay", "volt_rise", "volt_amp", "volt_peak", "volt_trough",
               "time_rdsym", "time_ptsym", "band_amp">>

SampleCols == <<"sample_peak", "sample_zerox_decay", "sample_zerox_rise",
                "sample_last_trough", "sample_next_trough">>

ConsistencyCols == <<"amplitude_fraction", "amplitude_consistency",
                     "period_consistency", "monotonicity">>

ThresholdCols == <<"burst_fraction">>

\* compute_shape_features: one row per cycle in both tables.
ShapeFeatures(sig) == Table(RangeIndex(sig), ShapeCols, <<Event("shape", PyNone)>>)

ShapeSamples(sig) == Table(RangeIndex(sig), SampleCols, <<Event("samples", PyNone)>>)

\* compute_burst_features: one row per cycle of df_samples; the threshold
\* path when a dual-threshold configuration is given, else the consistency
\* path.  Its values depend on the configuration it is given.
ComputeBurstFeatures(shape, samples, dtk, schema) ==
    Table(samples.index,
          (IF dtk.isDict THEN ThresholdCols ELSE ConsistencyCols)
              \o (IF schema = "colliding" THEN <<"period">> ELSE <<>>),
          <<Event("burst", dtk)>>)

\* detect_bursts_cycles / detect_bursts_df_amp: is_burst appended, rows kept.
DetectBursts(fn, df, kwargs) ==
    Table(df.index, Append(df.cols, "is_burst"),
          Append(df.hist, Event(fn, PyDict(kwargs))))

SeqToSet(s) == {s[i] : i \in DOMAIN s}

SelectNotIn(s, S) == SelectSeq(s, LAMBDA x : x \notin S)

\* pd.concat((a, b)) with axis=1 left out: the rows of b stacked under a.
PdConcatAxis0(a, b) ==
    Table(a.index \o b.index,
          a.cols \o SelectNotIn(b.cols, SeqToSet(a.cols)),
          a.hist \o b.hist)

\* pd.concat((a, b), axis=1): outer join on the row index, the columns of a
\* followed by the columns of b, duplicated names kept.
PdConcat(a, b) ==
    Table(a.index \o SelectNotIn(b.index, SeqToSet(a.index)),
          a.cols \o b.cols,
          a.hist \o b.hist)

(* ----------------------- steps of compute_features --------------------- *)

\* All three fields popped, n_cycles_min included.
KwargsAllPopped(d) == Pop(Pop(Pop(d, "amp_threshes"), "filter_kwargs"), "n_cycles_min")

\* burst_detection_kwargs after lines 115-118: amp_threshes and
\* filter_kwargs are popped, n_cycles_min is read in place.
KwargsAfterResolve(d) == Pop(Pop(d, "amp_threshes"), "filter_kwargs")

\* dual_threshold_kwargs as lines 112-118 build it from the dict d.
ResolveDualThreshold(d) ==
    ("fs" :> "fs") @@ ("f_range" :> "f_range") @@
    ("amp_threshes" :> GetOr(d, "amp_threshes", DefaultAmpThreshes)) @@
    ("filter_kwargs" :> GetOr(d, "filter_kwargs", DefaultFilterKwargs)) @@
    ("n_cycles_min" :> GetOr(d, "n_cycles_min", DefaultNCyclesMin))

\* The samples table returned in place of the features when the flag is off.
ReturnValueSwapped(rs, features, samples) ==
    IF rs THEN [kind |-> "pair", tables |-> <<features, samples>>, err |-> ""]
          ELSE [kind |-> "table", tables |-> <<samples>>, err |-> ""]

\* Lines 144-147: what the call returns.
ReturnValue(rs, features, samples) ==
    IF rs THEN [kind |-> "pair", tables |-> <<features, samples>>, err |-> ""]
          ELSE [kind |-> "table", tables |-> <<features>>, err |-> ""]

Raise(e) == [kind |-> "error", tables |-> <<>>, err |-> e]

NoOutcome == [kind |-> "none", tables |-> <<>>, err |-> ""]

Invocation(fn, cfg, cols) == [fn |-> fn, cfg |-> cfg, cols |-> cols]

Done == pc \in {"returned", "raised"}

NoArgs == [method |-> "cycles", return_samples |-> TRUE, sig |-> 0,
           schema |-> "disjoint"]

\* What the caller remembers of the call before, kept only while the
\* present call repeats it.
NoPrev == [valid |-> FALSE, args |-> NoArgs, entry |-> PyNone,
           trace |-> <<>>, outcome |-> NoOutcome]

ThisCall == [valid |-> TRUE, args |-> args, entry |-> entryKwargs,
             trace |-> trace, outcome |-> outcome]

SameButFlag(a, b) ==
    /\ a.method = b.method
    /\ a.sig = b.sig
    /\ a.schema = b.schema

Init ==
    /\ pc = "idle"
    /\ args = NoArgs
    /\ callerKwargs = PyNone
    /\ entryKwargs = PyNone
    /\ sameObj = FALSE
    /\ df_shape_features = NoTable
    /\ df_samples = NoTable
    /\ dual_threshold_kwargs = PyNone
    /\ df_burst_features = NoTable
    /\ df_features = NoTable
    /\ burst_detection_kwargs = PyNone
    /\ trace = <<>>
    /\ outcome = NoOutcome
    /\ prev = NoPrev

\* The caller calls compute_features(sig, ..., burst_detection_method=a.method,
\* burst_detection_kwargs=kw, return_samples=a.return_samples); with reuse the
\* object passed is the one the caller passed to the call before.
Call(a, kw, reuse) ==
    /\ pc = "idle" \/ Done
    /\ reuse => Done
    /\ args' = a
    /\ callerKwargs' = IF reuse THEN callerKwargs ELSE kw
    /\ entryKwargs' = callerKwargs'
    /\ burst_detection_kwargs' = callerKwargs'
    /\ sameObj' = reuse
    /\ prev' = IF Done /\ SameButFlag(a, args) /\ (reuse \/ kw = entryKwargs)
               THEN ThisCall ELSE NoPrev
    /\ df_shape_features' = NoTable
    /\ df_samples' = NoTable
    /\ dual_threshold_kwargs' = PyNone
    /\ df_burst_features' = NoTable
    /\ df_features' = NoTable
    /\ trace' = <<>>
    /\ outcome' = NoOutcome
    /\ pc' = "L104"

\* Lines 104-107: the shape feature extractor; its errors propagate.
ComputeShape ==
    /\ pc = "L104"
    /\ trace' = Append(trace, Invocation("compute_shape_features", PyNone, <<>>))
    /\ IF TooShort(args.sig)
       THEN /\ outcome' = Raise("UpstreamComputationFailure")
            /\ pc' = "raised"
            /\ UNCHANGED <<df_shape_features, df_samples>>
       ELSE /\ df_shape_features' = ShapeFeatures(args.sig)
            /\ df_samples' = ShapeSamples(args.sig)
            /\ pc' = "L110"
            /\ UNCHANGED outcome
    /\ UNCHANGED <<args, callerKwargs, entryKwargs, sameObj, dual_threshold_kwargs,
                   df_burst_features, df_features, burst_detection_kwargs, prev>>

\* Lines 110-122: the dual-threshold configuration.  In 'amplitude' mode the
\* pops act on the caller's object; None has no pop.
ResolveKwargs ==
    /\ pc = "L110"
    /\ IF args.method = "amplitude"
       THEN IF burst_detection_kwargs.isDict
            THEN /\ dual_threshold_kwargs' =
                        PyDict(ResolveDualThreshold(burst_detection_kwargs.d))
                 /\ burst_detection_kwargs' =
                        PyDict(KwargsAfterResolve(burst_detection_kwargs.d))
                 /\ callerKwargs' = burst_detection_kwargs'
                 /\ pc' = "L125"
                 /\ UNCHANGED outcome
            ELSE /\ outcome' = Raise("AttributeError")
                 /\ pc' = "raised"
                 /\ UNCHANGED <<dual_threshold_kwargs, burst_detection_kwargs,
                                callerKwargs>>
       ELSE /\ dual_threshold_kwargs' = PyNone
            /\ pc' = "L125"
            /\ UNCHANGED <<outcome, burst_detection_kwargs, callerKwargs>>
    /\ UNCHANGED <<args, entryKwargs, sameObj, df_shape_features, df_samples,
                   df_burst_features, df_features, trace, prev>>

\* Lines 125-126: the burst metric computer.
ComputeBurst ==
    /\ pc = "L125"
    /\ trace' = Append(trace, Invocation("compute_burst_features",
                                         dual_threshold_kwargs, <<>>))
    /\ df_burst_features' = ComputeBurstFeatures(df_shape_features, df_samples,
                                                 dual_threshold_kwargs, args.schema)
    /\ pc' = "L129"
    /\ UNCHANGED <<args, callerKwargs, entryKwargs, sameObj, df_shape_features,
                   df_samples, dual_threshold_kwargs, df_features,
                   burst_detection_kwargs, outcome, prev>>

\* Line 129: the column-wise concatenation.
Concatenate ==
    /\ pc = "L129"
    /\ trace' = Append(trace, Invocation("pd.concat", PyNone, <<>>))
    /\ df_features' = PdConcat(df_shape_features, df_burst_features)
    /\ pc' = "L132"
    /\ UNCHANGED <<args, callerKwargs, entryKwargs, sameObj, df_shape_features,
                   df_samples, dual_threshold_kwargs, df_burst_features,
                   burst_detection_kwargs, outcome, prev>>

\* Lines 132-133: a non-dict burst_detection_kwargs is rebound to a new {}.
AllowUnpacking ==
    /\ pc = "L132"
    /\ burst_detection_kwargs' = IF burst_detection_kwargs.isDict
                                 THEN burst_detection_kwargs
                                 ELSE PyDict(EmptyDict)
    /\ pc' = "L136"
    /\ UNCHANGED <<args, callerKwargs, entryKwargs, sameObj, df_shape_features,
                   df_samples, dual_threshold_kwargs, df_burst_features,
                   df_features, trace, outcome, prev>>

\* Lines 136-142: dispatch to the classifier, or the ValueError.
Classify(fn) ==
    /\ trace' = Append(trace, Invocation(fn, burst_detection_kwargs, df_features.cols))
    /\ df_features' = DetectBursts(fn, df_features, burst_detection_kwargs.d)
    /\ pc' = "L144"
    /\ UNCHANGED outcome

Dispatch ==
    /\ pc = "L136"
    /\ IF args.method = "cycles" THEN Classify("detect_bursts_cycles")
       ELSE IF args.method = "amplitude" THEN Classify("detect_bursts_df_amp")
       ELSE /\ outcome' = Raise("ValueError")
            /\ pc' = "raised"
            /\ UNCHANGED <<trace, df_features>>
    /\ UNCHANGED <<args, callerKwargs, entryKwargs, sameObj, df_shape_features,
                   df_samples, dual_threshold_kwargs, df_burst_features,
                   burst_detection_kwargs, prev>>

\* Lines 144-147: the return.
Return ==
    /\ pc = "L144"
    /\ outcome' = ReturnValue(args.return_samples, df_features, df_samples)
    /\ pc' = "returned"
    /\ UNCHANGED <<args, callerKwargs, entryKwargs, sameObj, df_shape_features,
                   df_samples, dual_threshold_kwargs, df_burst_features,
                   df_features, burst_detection_kwargs, trace, prev>>

CallNew == \E a \in CallArgs, kw \in CallerKwargs : Call(a, kw, FALSE)

CallAgain == \E a \in CallArgs : Call(a, callerKwargs, TRUE)

Next ==
    \/ CallNew
    \/ CallAgain
    \/ ComputeShape
    \/ ResolveKwargs
    \/ ComputeBurst
    \/ Concatenate
    \/ AllowUnpacking
    \/ Dispatch
    \/ Return

Spec == Init /\ [][Next]_vars

TypeOK == pc \in {"idle", "L104", "L110", "L125", "L129", "L132", "L136", "L144",
                  "returned", "raised"}
(* ------------------------------ properties ----------------------------- *)

\* The error the invalid-method branch raises (InvalidConfiguration).
InvalidConfiguration == "ValueError"

Count(fn) == Cardinality({i \in DOMAIN trace : trace[i].fn = fn})

Classifiers == {"detect_bursts_cycles", "detect_bursts_df_amp"}

Invoked(fn) == Count(fn) > 0

\* The invocation of fn the present call made.
CfgOf(fn) == trace[CHOOSE i \in DOMAIN trace : trace[i].fn = fn]

HasDup(cols) == \E i, j \in DOMAIN cols : i # j /\ cols[i] = cols[j]

Restrict(d, S) == [x \in DOMAIN d \cap S |-> d[x]]

\* The value the caller gave under k at the call, else the default.
CallerOr(k, dflt) ==
    IF entryKwargs.isDict /\ k \in DOMAIN entryKwargs.d THEN entryKwargs.d[k] ELSE dflt

Inconsistent(kw) ==
    /\ kw.isDict
    /\ "amp_threshes" \in DOMAIN kw.d
    /\ kw.d["amp_threshes"][1] >= kw.d["amp_threshes"][2]

FeatureTableOf(o) == IF o.kind \in {"table", "pair"} THEN o.tables[1] ELSE NoTable

\* C1: when the method is neither 'cycles' nor 'amplitude', the configuration
\* error is raised before any collaborator is invoked: at the moment it is
\* raised the shape feature extractor, the burst metric computer and the
\* concatenation have each been invoked zero times.
C1_ErrorBeforeCollaborators ==
    (pc = "raised" /\ outcome.err = InvalidConfiguration) =>
        /\ Count("compute_shape_features") = 0
        /\ Count("compute_burst_features") = 0
        /\ Count("pd.concat") = 0

\* C2: in 'amplitude' mode, whatever burst_detection_kwargs the caller gave
\* (also when it was omitted), the call does not fail for an absent field or
\* record, and the burst metric computer is invoked with amp_threshes,
\* filter_kwargs and n_cycles_min equal to the caller's value, else (1, 2),
\* None and 3.
C2_DefaultsFilled ==
    args.method = "amplitude" =>
        /\ outcome.err # "AttributeError"
        /\ Invoked("compute_burst_features") =>
             /\ CfgOf("compute_burst_features").cfg.isDict
             /\ LET c == CfgOf("compute_burst_features").cfg.d
                IN /\ c["amp_threshes"] = CallerOr("amp_threshes", DefaultAmpThreshes)
                   /\ c["filter_kwargs"] = CallerOr("filter_kwargs", DefaultFilterKwargs)
                   /\ c["n_cycles_min"] = CallerOr("n_cycles_min", DefaultNCyclesMin)

\* C3 (as claimed): in 'amplitude' mode the keyword configuration handed to
\* the dual-threshold classifier contains none of amp_threshes, filter_kwargs
\* and n_cycles_min, and exactly the caller's remaining entries.
C3_NoneOfThreeFields ==
    (args.method = "amplitude" /\ Invoked("detect_bursts_df_amp")) =>
        CfgOf("detect_bursts_df_amp").cfg.d =
            Restrict(entryKwargs.d, DOMAIN entryKwargs.d \ DualThreshKeys)

\* C3 (amended): in 'amplitude' mode the keyword configuration handed to the
\* dual-threshold classifier contains neither amp_threshes nor filter_kwargs,
\* and exactly the caller's other entries, n_cycles_min among them when the
\* caller gave it.
C3_TwoFieldsRemoved ==
    (args.method = "amplitude" /\ Invoked("detect_bursts_df_amp")) =>
        CfgOf("detect_bursts_df_amp").cfg.d =
            Restrict(entryKwargs.d,
                     DOMAIN entryKwargs.d \ {"amp_threshes", "filter_kwargs"})

C3_Witness ==
    /\ args.method = "amplitude"
    /\ Invoked("detect_bursts_df_amp")
    /\ entryKwargs.isDict
    /\ DOMAIN entryKwargs.d = DualThreshKeys \cup {"burst_fraction_threshold"}
    /\ "n_cycles_min" \in DOMAIN CfgOf("detect_bursts_df_amp").cfg.d

\* C4: a call given the very same argument values and the very same
\* configuration record as the call before passes the same configuration to
\* the burst metric computer and to the classifier and ends as that call did,
\* with the same tables.
C4_RepeatedCallIdentical ==
    (Done /\ prev.valid /\ sameObj /\ args = prev.args) =>
        /\ trace = prev.trace
        /\ outcome = prev.outcome

\* C5: a call whose method is neither 'cycles' nor 'amplitude' ends in the
\* invalid-configuration error: it returns nothing and surfaces no other
\* kind of error.
C5_InvalidMethodError ==
    (Done /\ args.method \notin {"cycles", "amplitude"}) =>
        /\ outcome.kind = "error"
        /\ outcome.err = InvalidConfiguration

\* C6: in 'amplitude' mode a call whose amp_threshes have low >= high ends in
\* the invalid-configuration error and returns no table (failures of the
\* shape feature extractor aside, which reach the caller unchanged).
C6_InconsistentThreshes ==
    (Done /\ args.method = "amplitude" /\ Inconsistent(entryKwargs)
          /\ ~TooShort(args.sig)) =>
        /\ outcome.kind = "error"
        /\ outcome.err = InvalidConfiguration

\* C7: once concatenated, the shape feature table, the burst metric table and
\* the feature table have the same number of rows and row i of each is row i
\* of the cyclepoints table; the classified and the returned table keep them.
C7_RowsAligned ==
    Invoked("pd.concat") =>
        /\ Len(df_shape_features.index) = Len(df_burst_features.index)
        /\ Len(df_burst_features.index) = Len(df_features.index)
        /\ df_shape_features.index = df_samples.index
        /\ df_burst_features.index = df_samples.index
        /\ df_features.index = df_samples.index
        /\ pc = "returned" => FeatureTableOf(outcome).index = df_samples.index

C7_Witness ==
    /\ pc = "returned"
    /\ Len(df_samples.index) >= 2
    /\ Len(FeatureTableOf(outcome).index) >= 2
    /\ Invoked("pd.concat")

\* C8: a call that differs from the call before in return_samples alone
\* invokes the collaborators with the same arguments and yields the same
\* feature table; with the flag off the table is returned alone, with it on
\* it is the first of the pair, the cyclepoints table the second.
C8_FlagOnlyShapesReturn ==
    (Done /\ prev.valid /\ entryKwargs = prev.entry
          /\ args.return_samples # prev.args.return_samples) =>
        /\ trace = prev.trace
        /\ outcome.err = prev.outcome.err
        /\ FeatureTableOf(outcome) = FeatureTableOf(prev.outcome)
        /\ (outcome.kind = "error") = (prev.outcome.kind = "error")
        /\ pc = "returned" =>
             /\ outcome.kind = IF args.return_samples THEN "pair" ELSE "table"
             /\ FeatureTableOf(outcome) = df_features
             /\ args.return_samples => outcome.tables[2] = df_samples

C8_Witness ==
    /\ pc = "returned"
    /\ prev.valid
    /\ entryKwargs = prev.entry
    /\ ~args.return_samples
    /\ prev.args.return_samples
    /\ outcome.kind = "table"
    /\ prev.outcome.kind = "pair"
    /\ outcome.tables[1] = prev.outcome.tables[1]

C10_KwargsUnchanged ==
    Done => callerKwargs = entryKwargs
====
